---- MODULE Spec2Model ----
(***************************************************************************)
(* Model of ruta4A.py: the BusSimulator object, its construction, the      *)
(* keyboard handler and the animation tick.                                 *)
(*                                                                          *)
(* Numbers.  The program computes in binary floating point; the model      *)
(* computes the same quantities exactly, in fixed point:                    *)
(*   progress and the per-tick step   in units of 1/ProgressUnit           *)
(*   congestion                       in tenths                             *)
(*   impacto_R1                       in hundredths                         *)
(*   demand                           in tenths                             *)
(*   icon width and height            in hundredths of a map unit          *)
(*   distances and times              in thousandths, shown in hundredths  *)
(*   the travel angle                 by its position relative to the      *)
(*                                    multiples of 45 degrees (Atan2Deg)   *)
(***************************************************************************)
EXTENDS Integers, Sequences, FiniteSets, TLC

\* ---------------------------------------------------------------- bounds
\* performance_data grows by one entry per route change; the space key is
\* accepted while it holds fewer than MaxPerf entries.
MaxPerf == 5
\* The downloaded image has width and height in {0} \cup {64^k : k \in 0..MaxImgExp}.
MaxImgExp == 1
\* The dx, dy range over which the orientation bands are compared.
MaxDelta == 4

\* ------------------------------------------------------ fixed-point units
\* One whole segment of progress.  6000 makes every route's step an integer:
\* 0.01 * (v / 30) * (1 - c * 0.5) = v * (20 - 10c) / 60000.
ProgressUnit == 6000

\* ------------------------------------------------------- static data
points ==
  [p \in {"Terminal", "Hospital", "El Recreo", "Barrio Industrial"} |->
     CASE p = "Terminal" -> <<2, 2>>
       [] p = "Hospital" -> <<8, 5>>
       [] p = "El Recreo" -> <<5, 8>>
       [] p = "Barrio Industrial" -> <<10, 2>>]

\* list(self.routes.keys()): the route names in insertion order.
RouteNames == <<"R1", "R2", "R3", "R4">>

routes ==
  [r \in {"R1", "R2", "R3", "R4"} |->
     CASE r = "R1" -> <<"Terminal", "Hospital">>
       [] r = "R2" -> <<"Hospital", "El Recreo">>
       [] r = "R3" -> <<"Terminal", "El Recreo">>
       [] r = "R4" -> <<"Terminal", "Barrio Industrial">>]

\* congestion in tenths, impacto_R1 in hundredths.
route_params ==
  [r \in {"R1", "R2", "R3", "R4"} |->
     CASE r = "R1" -> [color |-> "blue", velocidad_promedio |-> 30, frecuencia |-> 15,
                       congestion |-> 7, demanda |-> 180, buses_requeridos |-> 180]
       [] r = "R2" -> [color |-> "green", velocidad_promedio |-> 25, frecuencia |-> 20,
                       congestion |-> 6, demanda |-> 150, buses_requeridos |-> 150]
       [] r = "R3" -> [color |-> "red", velocidad_promedio |-> 35, frecuencia |-> 25,
                       congestion |-> 4, demanda |-> 120, buses_requeridos |-> 120]
       [] r = "R4" -> [color |-> "purple", velocidad_promedio |-> 40, frecuencia |-> 15,
                       congestion |-> 5, demanda |-> 100, buses_requeridos |-> 2,
                       impacto_R1 |-> -12]]

\* ------------------------------------------------------- arithmetic
Abs(n) == IF n < 0 THEN -n ELSE n

\* a / b rounded to the nearest integer, ties to even (Python's round() and
\* format() on a non-negative value); a >= 0, b > 0.
RoundDiv(a, b) ==
  LET q == a \div b
      r == a % b
  IN  IF 2 * r > b THEN q + 1
      ELSE IF 2 * r < b THEN q
      ELSE IF q % 2 = 0 THEN q ELSE q + 1

RECURSIVE SqrtSearch(_, _, _)
SqrtSearch(n, lo, hi) ==
  IF lo >= hi THEN lo
  ELSE LET mid == (lo + hi + 1) \div 2
       IN  IF mid * mid <= n THEN SqrtSearch(n, mid, hi)
           ELSE SqrtSearch(n, lo, mid - 1)

\* floor(sqrt(n)) for 0 <= n < 2^31.
ISqrt(n) == SqrtSearch(n, 0, 46340)

\* Position of degrees(atan2(dy, dx)) relative to the multiples of 45 degrees:
\* 2k stands for exactly 45k degrees, 2k + 1 for an angle strictly between 45k
\* and 45(k + 1) degrees.  The map is monotone, so every comparison of the
\* angle with -135, -45, 45 or 135 is a comparison of the code with -6, -2, 2
\* or 6.  atan2(0, 0) is 0 and atan2(0, dx < 0) is 180.
Atan2Deg(dy, dx) ==
  CASE dy = 0 /\ dx >= 0 -> 0
    [] dy = 0 /\ dx < 0 -> 8
    [] dy > 0 /\ dx > 0 -> IF dy < dx THEN 1 ELSE IF dy = dx THEN 2 ELSE 3
    [] dy > 0 /\ dx = 0 -> 4
    [] dy > 0 /\ dx < 0 -> IF dy > -dx THEN 5 ELSE IF dy = -dx THEN 6 ELSE 7
    [] dy < 0 /\ dx > 0 -> IF -dy < dx THEN -1 ELSE IF -dy = dx THEN -2 ELSE -3
    [] dy < 0 /\ dx = 0 -> -4
    [] dy < 0 /\ dx < 0 -> IF -dy > -dx THEN -5 ELSE IF dy = dx THEN -6 ELSE -7

Deg45 == 2
Deg135 == 6

\* ------------------------------------------------------------ state
VARIABLES
  pc,               \* "init" (before line 78), "loaded", "constructed", "running", "crashed"
  requests_made,    \* number of requests.get calls so far
  response,         \* "none"; "error": requests.get or Image.open raised; "image"
  stdout,           \* the lines printed so far
  bus_img,          \* "none", "custom" or "fallback"
  bus_width,        \* self.bus_width, hundredths
  bus_height,       \* self.bus_height, hundredths
  extent,           \* the extent of self.bus_icon
  current_route,    \* self.current_route ("none" before it is assigned)
  bus_pos,          \* self.bus_pos
  performance_data, \* self.performance_data
  highlighted,      \* the route drawn with the solid line
  route_text,       \* the text of self.route_text, as a sequence of lines
  metrics_text,     \* the text of self.metrics_text
  impact_text,      \* the text of self.impact_text
  frame,            \* the locals of the latest update_bus_position call
  event,            \* the latest event handled
  before            \* self.bus_pos when that event arrived

vars == <<pc, requests_made, response, stdout, bus_img, bus_width, bus_height, extent,
          current_route, bus_pos, performance_data, highlighted, route_text,
          metrics_text, impact_text, frame, event, before>>

\* What load_custom_bus_image sets and nothing else changes.
icon_vars == <<requests_made, response, bus_img, bus_width, bus_height>>

\* ----------------------------------------------------------- metrics
\* [self.points[p] for p in self.routes[route]]
RoutePoints(route) == [i \in 1..Len(routes[route]) |-> points[routes[route][i]]]

SquaredDistance(route) ==
  LET pts == RoutePoints(route)
  IN  (pts[2][1] - pts[1][1]) * (pts[2][1] - pts[1][1])
        + (pts[2][2] - pts[1][2]) * (pts[2][2] - pts[1][2])

\* np.sqrt(...), thousandths (rounded down).
Distance(route) == ISqrt(SquaredDistance(route) * 1000000)

\* round(distance, 2), hundredths: the integer nearest to sqrt(100^2 * d^2).
RoundedDistance(route) ==
  LET n == SquaredDistance(route) * 10000
      r == ISqrt(n)
  IN  IF n - r * r > r THEN r + 1 ELSE r

\* demanda_ajustada, tenths, adjusted only while R4 is the active route.
AdjustedDemandWhenR4Active(route) ==
  LET params == route_params[route]
  IN  IF route = "R1" /\ current_route = "R4"
      THEN (params.demanda * (100 + route_params["R4"].impacto_R1)) \div 10
      ELSE params.demanda * 10

\* demanda_ajustada, tenths.
AdjustedDemand(route) ==
  LET params == route_params[route]
  IN  IF route = "R1" /\ "R4" \in DOMAIN routes
      THEN (params.demanda * (100 + route_params["R4"].impacto_R1)) \div 10
      ELSE params.demanda * 10

\* tiempo, thousandths of a minute.
Tiempo(route) ==
  LET params == route_params[route]
  IN  (Distance(route) * 60 * (10 + params.congestion))
        \div (10 * params.velocidad_promedio)

\* score, hundredths (already rounded to two places).
Score(route) ==
  LET params == route_params[route]
  IN  RoundDiv(50000 * AdjustedDemand(route),
               3 * Tiempo(route) + 2000 * params.frecuencia)

calculate_route_metrics(route) ==
  LET params == route_params[route]
  IN  [Ruta |-> route,
       Distancia |-> RoundedDistance(route),
       Tiempo |-> RoundDiv(Tiempo(route), 10),
       Congestion |-> params.congestion,
       Frecuencia |-> params.frecuencia,
       Demanda |-> AdjustedDemand(route),
       Puntaje |-> Score(route),
       Buses |-> params.buses_requeridos]

\* ------------------------------------------------------------ texts
\* Each text is a sequence of lines, a line a tuple of its label and values;
\* numbers are given as the format specification prints them.
RouteInfo(route) ==
  LET params == route_params[route]
  IN  << <<"Ruta actual", route, routes[route]>>,
         <<"Velocidad", params.velocidad_promedio>>,
         <<"Congestion %", RoundDiv(params.congestion * 100, 10)>>,
         <<"Frecuencia", params.frecuencia>>,
         <<"Buses", params.buses_requeridos>> >>

MetricsInfo(metrics) ==
  << <<"Metricas de Optimizacion">>,
     <<"Distancia", metrics.Distancia>>,
     <<"Tiempo", metrics.Tiempo>>,
     <<"Demanda", RoundDiv(metrics.Demanda, 10)>>,
     <<"Puntaje", metrics.Puntaje>> >>

ImpactInfo(route) ==
  IF route \in {"R1", "R4"}
  THEN LET impacto == route_params["R4"].impacto_R1
           buses_extra == route_params["R4"].buses_requeridos
       IN  IF route = "R1"
           THEN << <<"Impacto de R4">>,
                   <<"Reduce demanda en R1 %", RoundDiv(Abs(impacto) * 100, 100)>>,
                   <<"Buses adicionales necesarios", buses_extra>> >>
           ELSE << <<"Impacto de esta ruta">>,
                   <<"Reduce demanda en R1 %", RoundDiv(Abs(impacto) * 100, 100)>>,
                   <<"Buses requeridos", buses_extra>> >>
  ELSE << >>

update_info_text(route, perf) ==
  LET metrics == calculate_route_metrics(route)
  IN  [route_text |-> RouteInfo(route),
       metrics_text |-> MetricsInfo(metrics),
       impact_text |-> ImpactInfo(route),
       metrics |-> metrics,
       performance_data |-> Append(perf, metrics)]

\* ------------------------------------------------------------- icon
\* An extent is <<left, right, bottom, top>>; each coordinate is a pair
\* <<a, b>> standing for a / ProgressUnit + b / 200 map units.
NoExtent == << >>

IconExtent(width, height) == << <<0, 0>>, <<0, 2 * width>>, <<0, 0>>, <<0, 2 * height>> >>

ImgDims == {0} \cup {64 ^ k : k \in 0..MaxImgExp}

\* What the download delivers: nothing usable (requests.get or Image.open
\* raises), or an image of some size.
FetchOutcomes ==
  {[ok |-> FALSE, size |-> <<0, 0>>]}
    \cup {[ok |-> TRUE, size |-> <<w, h>>] : w \in ImgDims, h \in ImgDims}

NewHeight == 50

\* int(original_width * (new_height / original_height)), original_height > 0
NewWidth(size) == (size[1] * NewHeight) \div size[2]

\* The try block of load_custom_bus_image raises: on a failed download, on
\* bytes that are no image, on the division by a zero height, and in
\* img.resize, which rejects a size below 1.
LoadRaises(outcome) ==
  \/ ~outcome.ok
  \/ outcome.size[2] = 0
  \/ NewWidth(outcome.size) < 1
  \/ NewHeight < 1

create_fallback_bus_icon ==
  [bus_img |-> "fallback", bus_width |-> 100, bus_height |-> 50,
   extent |-> IconExtent(100, 50)]

\* The except branch with the fallback call left out.
LoadOutcomeWithoutFallback(outcome) ==
  IF LoadRaises(outcome)
  THEN [bus_img |-> "none", bus_width |-> 0, bus_height |-> 0, extent |-> NoExtent,
        printed |-> <<"Error cargando imagen personalizada">>]
  ELSE [bus_img |-> "custom", bus_width |-> NewWidth(outcome.size),
        bus_height |-> NewHeight,
        extent |-> IconExtent(NewWidth(outcome.size), NewHeight),
        printed |-> << >>]

\* The attributes load_custom_bus_image leaves, and what it prints.
LoadOutcome(outcome) ==
  IF LoadRaises(outcome)
  THEN [bus_img |-> create_fallback_bus_icon.bus_img,
        bus_width |-> create_fallback_bus_icon.bus_width,
        bus_height |-> create_fallback_bus_icon.bus_height,
        extent |-> create_fallback_bus_icon.extent,
        printed |-> <<"Error cargando imagen personalizada">>]
  ELSE [bus_img |-> "custom", bus_width |-> NewWidth(outcome.size),
        bus_height |-> NewHeight,
        extent |-> IconExtent(NewWidth(outcome.size), NewHeight),
        printed |-> << >>]

\* ----------------------------------------------------------- motion
\* The per-tick step, in 1/ProgressUnit.
Speed(route) ==
  LET params == route_params[route]
  IN  (ProgressUnit * params.velocidad_promedio * (20 - params.congestion))
        \div (100 * 30 * 20)

\* Lines 291-298 with the reset of progress left out.
AdvanceWithoutReset(route, pos) ==
  LET progress == pos.progress + Speed(route)
  IN  IF progress >= ProgressUnit
      THEN [segment |-> IF pos.segment + 1 >= Len(RoutePoints(route)) - 1
                        THEN 0 ELSE pos.segment + 1,
            progress |-> progress]
      ELSE [segment |-> pos.segment, progress |-> progress]

\* Lines 291-298 with the wrap of the segment left out.
AdvanceWithoutWrap(route, pos) ==
  LET progress == pos.progress + Speed(route)
  IN  IF progress >= ProgressUnit
      THEN [segment |-> pos.segment + 1, progress |-> 0]
      ELSE [segment |-> pos.segment, progress |-> progress]

\* Lines 291-298 carrying the overshoot into the next segment.
AdvanceCarryingOvershoot(route, pos) ==
  LET progress == pos.progress + Speed(route)
  IN  IF progress >= ProgressUnit
      THEN [segment |-> IF pos.segment + 1 >= Len(RoutePoints(route)) - 1
                        THEN 0 ELSE pos.segment + 1,
            progress |-> progress - ProgressUnit]
      ELSE [segment |-> pos.segment, progress |-> progress]

\* Lines 291-298 with the step never added.
AdvanceStandingStill(route, pos) ==
  IF pos.progress >= ProgressUnit
  THEN [segment |-> IF pos.segment + 1 >= Len(RoutePoints(route)) - 1
                    THEN 0 ELSE pos.segment + 1,
        progress |-> 0]
  ELSE [segment |-> pos.segment, progress |-> pos.progress]

\* Lines 290-298: the new self.bus_pos.
Advance(route, pos) ==
  LET progress == pos.progress + Speed(route)
  IN  IF progress >= ProgressUnit
      THEN [segment |-> IF pos.segment + 1 >= Len(RoutePoints(route)) - 1
                        THEN 0 ELSE pos.segment + 1,
            progress |-> 0]
      ELSE [segment |-> pos.segment, progress |-> progress]

\* Lines 314-321 with the upper limit of the second band exclusive.
OrientationExclusive135(angle) ==
  IF -Deg45 <= angle /\ angle <= Deg45 THEN "right"
  ELSE IF Deg45 < angle /\ angle < Deg135 THEN "up"
  ELSE IF angle > Deg135 \/ angle < -Deg135 THEN "left"
  ELSE "down"

\* Lines 314-321: the branch taken.
Orientation(angle) ==
  IF -Deg45 <= angle /\ angle <= Deg45 THEN "right"
  ELSE IF Deg45 < angle /\ angle <= Deg135 THEN "up"
  ELSE IF angle > Deg135 \/ angle < -Deg135 THEN "left"
  ELSE "down"

\* The extent each branch computes; x, y in 1/ProgressUnit.
OrientedExtent(orientation, x, y, width, height) ==
  CASE orientation = "right" ->
         << <<x, -width>>, <<x, width>>, <<y, 0>>, <<y, 2 * height>> >>
    [] orientation = "up" ->
         << <<x, -height>>, <<x, height>>, <<y, 0>>, <<y, 2 * width>> >>
    [] orientation = "left" ->
         << <<x, -width>>, <<x, width>>, <<y, -2 * height>>, <<y, 0>> >>
    [] orientation = "down" ->
         << <<x, -height>>, <<x, height>>, <<y, -2 * width>>, <<y, 0>> >>

NoFrame == [start |-> <<0, 0>>, end |-> <<0, 0>>, wrapped_end |-> FALSE,
            x |-> 0, y |-> 0, angle |-> 0, orientation |-> "none"]

\* Lines 300-321: the locals computed from the new position.  points[segment]
\* raises IndexError when segment is not an index of points.
SegmentOutOfRange(route, pos) == pos.segment >= Len(RoutePoints(route))

DrawFrame(route, pos) ==
  LET pts == RoutePoints(route)
      segment == pos.segment
      progress == pos.progress
      start == pts[segment + 1]
      wrapped == ~(segment + 1 < Len(pts))
      end == IF segment + 1 < Len(pts) THEN pts[segment + 2] ELSE pts[1]
      dx == end[1] - start[1]
      dy == end[2] - start[2]
      angle == Atan2Deg(dy, dx)
  IN  [start |-> start, end |-> end, wrapped_end |-> wrapped,
       x |-> start[1] * ProgressUnit + dx * progress,
       y |-> start[2] * ProgressUnit + dy * progress,
       angle |-> angle, orientation |-> Orientation(angle)]

\* ---------------------------------------------------------- actions
NoEvent == [type |-> "none", key |-> ""]
StartPos == [segment |-> 0, progress |-> 0]

\* The state when __init__ reaches line 78.
Init ==
  /\ pc = "init"
  /\ requests_made = 0
  /\ response = "none"
  /\ stdout = << >>
  /\ bus_img = "none"
  /\ bus_width = 0
  /\ bus_height = 0
  /\ extent = NoExtent
  /\ current_route = "none"
  /\ bus_pos = StartPos
  /\ performance_data = << >>
  /\ highlighted = "none"
  /\ route_text = << >>
  /\ metrics_text = << >>
  /\ impact_text = << >>
  /\ frame = NoFrame
  /\ event = NoEvent
  /\ before = StartPos

\* Line 78: one download, then either the processed image or the fallback.
load_custom_bus_image ==
  /\ pc = "init"
  /\ \E outcome \in FetchOutcomes :
       LET got == LoadOutcome(outcome)
       IN  /\ bus_img' = got.bus_img
           /\ bus_width' = got.bus_width
           /\ bus_height' = got.bus_height
           /\ extent' = got.extent
           /\ stdout' = stdout \o got.printed
           /\ response' = IF outcome.ok THEN "image" ELSE "error"
  /\ requests_made' = requests_made + 1
  /\ pc' = "loaded"
  /\ UNCHANGED <<current_route, bus_pos, performance_data, highlighted, route_text,
                 metrics_text, impact_text, frame, event, before>>

\* Lines 80-96: the state variables, the map with the highlighted route, the
\* empty panels and their first texts.
Construct ==
  /\ pc = "loaded"
  /\ LET info == update_info_text("R1", << >>)
     IN  /\ current_route' = "R1"
         /\ bus_pos' = StartPos
         /\ highlighted' = "R1"
         /\ route_text' = info.route_text
         /\ metrics_text' = info.metrics_text
         /\ impact_text' = info.impact_text
         /\ performance_data' = info.performance_data
  /\ pc' = "constructed"
  /\ UNCHANGED <<icon_vars, stdout, extent,
                 frame, event, before>>

\* run_simulation: the banner, then the event loop starts.
run_simulation ==
  /\ pc = "constructed"
  /\ stdout' = stdout \o <<"Simulacion de Autobus con Imagen Personalizada",
                           "=============================================",
                           "Presiona ESPACIO para cambiar de ruta",
                           "Observa las metricas de optimizacion en tiempo real">>
  /\ pc' = "running"
  /\ UNCHANGED <<icon_vars, extent, current_route,
                 bus_pos, performance_data, highlighted, route_text, metrics_text,
                 impact_text, frame, event, before>>

\* update(frame): one animation tick.
update ==
  /\ pc = "running"
  /\ bus_pos' = Advance(current_route, bus_pos)
  /\ IF SegmentOutOfRange(current_route, bus_pos')
     THEN /\ pc' = "crashed"
          /\ UNCHANGED <<frame, extent>>
     ELSE /\ frame' = DrawFrame(current_route, bus_pos')
          /\ extent' = OrientedExtent(frame'.orientation, frame'.x, frame'.y,
                                      bus_width, bus_height)
          /\ pc' = pc
  /\ event' = [type |-> "timer", key |-> ""]
  /\ before' = bus_pos
  /\ UNCHANGED <<icon_vars, stdout, current_route,
                 performance_data, highlighted, route_text, metrics_text, impact_text>>

Keys == {" ", "a"}

\* list.index(value), zero-based.
IndexOf(seq, value) == (CHOOSE i \in 1..Len(seq) : seq[i] = value) - 1

\* on_key_press without the two refreshing calls of lines 212-213.
KeyPressWithoutRefresh(key) ==
  /\ pc = "running"
  /\ IF key = " "
     THEN /\ Len(performance_data) < MaxPerf
          /\ LET current_idx == IndexOf(RouteNames, current_route)
                 next_idx == (current_idx + 1) % Len(RouteNames)
             IN  current_route' = RouteNames[next_idx + 1]
          /\ bus_pos' = StartPos
          /\ performance_data' = Append(performance_data,
                                        performance_data[Len(performance_data)])
          /\ UNCHANGED <<highlighted, route_text, metrics_text, impact_text>>
     ELSE UNCHANGED <<current_route, bus_pos, highlighted, route_text, metrics_text,
                      impact_text, performance_data>>
  /\ event' = [type |-> "key", key |-> key]
  /\ before' = bus_pos
  /\ UNCHANGED <<pc, icon_vars, stdout, extent, frame>>

\* on_key_press without the reset of line 211.
KeyPressWithoutReset(key) ==
  /\ pc = "running"
  /\ IF key = " "
     THEN /\ Len(performance_data) < MaxPerf
          /\ LET current_idx == IndexOf(RouteNames, current_route)
                 next_idx == (current_idx + 1) % Len(RouteNames)
                 next_route == RouteNames[next_idx + 1]
                 info == update_info_text(next_route, performance_data)
             IN  /\ current_route' = next_route
                 /\ highlighted' = next_route
                 /\ route_text' = info.route_text
                 /\ metrics_text' = info.metrics_text
                 /\ impact_text' = info.impact_text
                         /\ performance_data' = info.performance_data
          /\ UNCHANGED bus_pos
     ELSE UNCHANGED <<current_route, bus_pos, highlighted, route_text, metrics_text,
                      impact_text, performance_data>>
  /\ event' = [type |-> "key", key |-> key]
  /\ before' = bus_pos
  /\ UNCHANGED <<pc, icon_vars, stdout, extent, frame>>

\* on_key_press stepping back instead of forward.
KeyPressBackwards(key) ==
  /\ pc = "running"
  /\ IF key = " "
     THEN /\ Len(performance_data) < MaxPerf
          /\ LET current_idx == IndexOf(RouteNames, current_route)
                 next_idx == (current_idx + Len(RouteNames) - 1) % Len(RouteNames)
                 next_route == RouteNames[next_idx + 1]
                 info == update_info_text(next_route, performance_data)
             IN  /\ current_route' = next_route
                 /\ highlighted' = next_route
                 /\ route_text' = info.route_text
                 /\ metrics_text' = info.metrics_text
                 /\ impact_text' = info.impact_text
                         /\ performance_data' = info.performance_data
          /\ bus_pos' = StartPos
     ELSE UNCHANGED <<current_route, bus_pos, highlighted, route_text, metrics_text,
                      impact_text, performance_data>>
  /\ event' = [type |-> "key", key |-> key]
  /\ before' = bus_pos
  /\ UNCHANGED <<pc, icon_vars, stdout, extent, frame>>

\* on_key_press(event) with event.key = key.
on_key_press(key) ==
  /\ pc = "running"
  /\ IF key = " "
     THEN /\ Len(performance_data) < MaxPerf
          /\ LET current_idx == IndexOf(RouteNames, current_route)
                 next_idx == (current_idx + 1) % Len(RouteNames)
                 next_route == RouteNames[next_idx + 1]
                 info == update_info_text(next_route, performance_data)
             IN  /\ current_route' = next_route
                 /\ highlighted' = next_route
                 /\ route_text' = info.route_text
                 /\ metrics_text' = info.metrics_text
                 /\ impact_text' = info.impact_text
                         /\ performance_data' = info.performance_data
          /\ bus_pos' = StartPos
     ELSE UNCHANGED <<current_route, bus_pos, highlighted, route_text, metrics_text,
                      impact_text, performance_data>>
  /\ event' = [type |-> "key", key |-> key]
  /\ before' = bus_pos
  /\ UNCHANGED <<pc, icon_vars, stdout, extent, frame>>

KeyPress == \E key \in Keys : on_key_press(key)

Next ==
  \/ load_custom_bus_image
  \/ Construct
  \/ run_simulation
  \/ update
  \/ KeyPress

Spec == Init /\ [][Next]_vars

\* The constructor and the animation timer keep running; nothing obliges the
\* user to press a key.
Program == load_custom_bus_image \/ Construct \/ run_simulation \/ update

LiveSpec == Init /\ [][Next]_vars /\ WF_vars(Program)

\* ------------------------------------------------------------ claims
ErrorLine == "Error cargando imagen personalizada"

SpaceKey == [type |-> "key", key |-> " "]
Timer == [type |-> "timer", key |-> ""]

Constructed == pc \in {"constructed", "running", "crashed"}

\* The order the routes are stepped through.
NextInOrder(route) ==
  CASE route = "R1" -> "R2"
    [] route = "R2" -> "R3"
    [] route = "R3" -> "R4"
    [] route = "R4" -> "R1"

\* performance_data holds one entry from the constructor and one per space
\* press, so Len(performance_data) - 1 is the number of presses so far.
RouteAfterPresses(n) == <<"R1", "R2", "R3", "R4">>[(n % 4) + 1]

\* C1: the active route changes only on a space key press, and then to the
\* successor in the order R1 -> R2 -> R3 -> R4 -> R1; ticks and other keys
\* leave it unchanged; so after n presses, with any ticks and other keys in
\* between, the route is the n-th successor of R1, and R1 again after four.
C1_RouteCycles ==
  /\ [](pc = "running"
          => current_route = RouteAfterPresses(Len(performance_data) - 1))
  /\ [][(pc = "running" /\ current_route' # current_route)
          => (on_key_press(" ") /\ current_route' = NextInOrder(current_route))]_vars
  /\ [][(update \/ \E key \in Keys \ {" "} : on_key_press(key))
          => current_route' = current_route]_vars

\* Four space presses, with ticks in between, have visited the four routes
\* and brought R1 back.
C1_FourPressesBackAtR1 ==
  /\ pc = "running"
  /\ Len(performance_data) = 5
  /\ {performance_data[i].Ruta : i \in 1..5} = {"R1", "R2", "R3", "R4"}
  /\ current_route = "R1"
  /\ event = SpaceKey
  /\ before.progress > 0

\* C2: a step that changes the active route (a space press) leaves the bus at
\* segment 0 and progress 0, whatever the position was.
C2_SwitchResetsMotion ==
  [][((pc = "running" /\ current_route' # current_route) \/ on_key_press(" "))
       => bus_pos' = [segment |-> 0, progress |-> 0]]_vars

\* A space press arrived while the bus was under way.
C2_PressedUnderWay ==
  /\ event = SpaceKey
  /\ before.progress > 0
  /\ current_route = "R3"
  /\ bus_pos = [segment |-> 0, progress |-> 0]

\* C3: in every reachable state 0 <= progress < 1.
C3_ProgressInUnitInterval ==
  /\ 0 <= bus_pos.progress
  /\ bus_pos.progress < ProgressUnit

\* On R4 a tick has brought progress to exactly 1, and it was reset.
C3_ReachedOneExactly ==
  /\ current_route = "R4"
  /\ event = Timer
  /\ before.progress + Speed("R4") = ProgressUnit
  /\ bus_pos.progress = 0

\* C4: the segment index is between 0 and (stops of the active route) - 2, so
\* a tick reads points[segment] and points[segment + 1], never past the end
\* and never the points[0] fallback; also right after a route switch.
C4_SegmentInRouteBounds ==
  /\ pc # "crashed"
  /\ Constructed
       => /\ 0 <= bus_pos.segment
          /\ bus_pos.segment <= Len(routes[current_route]) - 2
  /\ event = Timer => ~frame.wrapped_end

\* After a route switch the bus has run to the end of the segment, and the
\* tick that wrapped left segment 0.
C4_WrappedAfterSwitch ==
  /\ Len(performance_data) >= 2
  /\ event = Timer
  /\ before.progress > 0
  /\ bus_pos = [segment |-> 0, progress |-> 0]
  /\ frame.start = points[routes[current_route][1]]

ErrorLines == Cardinality({i \in DOMAIN stdout : stdout[i] = ErrorLine})

\* C5: the download is attempted exactly once, at startup; when it or the
\* parsing fails, one error line is printed and the 1.0 x 0.5 placeholder is
\* used; either way an icon of positive width and height exists before any
\* tick or key press, and the program is never in an error state.
C5_IconAlwaysAvailable ==
  /\ requests_made = IF pc = "init" THEN 0 ELSE 1
  /\ pc # "crashed"
  /\ event # NoEvent => pc = "running"
  /\ pc # "init"
       => /\ bus_img \in {"custom", "fallback"}
          /\ bus_width > 0
          /\ bus_height > 0
          /\ response = "error" => bus_img = "fallback"
          /\ bus_img = "fallback"
               => ErrorLines = 1 /\ bus_width = 100 /\ bus_height = 50
          /\ bus_img = "custom" => ErrorLines = 0

\* The download failed and the animation runs with the placeholder.
C5_RunningOnFallback ==
  /\ response = "error"
  /\ bus_img = "fallback"
  /\ stdout[1] = ErrorLine
  /\ pc = "running"
  /\ event = Timer

\* C6: after initialization the route and metrics panels show the active
\* route's data and no other route's, the impact panel is non-empty exactly
\* for R1 and R4, and a tick changes no panel.
C6_OverlaysFollowRoute ==
  /\ [](pc \in {"constructed", "running"}
          => /\ route_text = RouteInfo(current_route)
             /\ metrics_text = MetricsInfo(calculate_route_metrics(current_route))
             /\ impact_text = ImpactInfo(current_route)
             /\ impact_text # << >> <=> current_route \in {"R1", "R4"}
             /\ \A other \in DOMAIN routes \ {current_route} :
                  /\ route_text # RouteInfo(other)
                  /\ metrics_text # MetricsInfo(calculate_route_metrics(other)))
  /\ [][update => UNCHANGED <<route_text, metrics_text, impact_text>>]_vars

\* The route was switched to R2 and ticks have followed: the panels show R2
\* and the impact panel is empty.
C6_ShowingR2 ==
  /\ current_route = "R2"
  /\ Len(performance_data) = 2
  /\ event = Timer
  /\ route_text[1] = <<"Ruta actual", "R2", <<"Hospital", "El Recreo">> >>
  /\ impact_text = << >>

\* The step of the claim: 0.01 * (speed / 30) * (1 - congestion * 0.5).
ClaimedStep(route) ==
  (route_params[route].velocidad_promedio * (20 - route_params[route].congestion)) \div 10

\* C7: a tick with progress p and step s gives progress p + s and the same
\* segment when p + s < 1; otherwise the next segment, or 0 past the last
\* one, and progress exactly 0.
C7_TickAdvancesOrWraps ==
  [][update
       => LET p == bus_pos.progress
              s == ClaimedStep(current_route)
              last == Len(routes[current_route]) - 2
          IN  IF p + s < ProgressUnit
              THEN bus_pos' = [segment |-> bus_pos.segment, progress |-> p + s]
              ELSE bus_pos' = [segment |-> IF bus_pos.segment + 1 > last
                                           THEN 0 ELSE bus_pos.segment + 1,
                               progress |-> 0]]_vars

\* On R1 a tick overshot 1 and the overshoot was dropped.
C7_OvershootDropped ==
  /\ current_route = "R1"
  /\ event = Timer
  /\ before.progress + ClaimedStep("R1") > ProgressUnit
  /\ bus_pos.progress = 0

\* The adjusted demand of the claim, tenths: 158.4 for R1, the base demand
\* for the others.
ClaimedDemand(route) ==
  IF route = "R1" THEN 1584 ELSE route_params[route].demanda * 10

\* C8: calculate_route_metrics reports 180 * (1 - 0.12) = 158.4 for R1 and
\* the base demand for R2, R3 and R4, whichever route is active: in every
\* state of the constructed object, for every route, and in every entry it
\* has put in performance_data.
C8_AdjustedDemandOnlyR1 ==
  /\ Constructed
       => \A route \in DOMAIN routes :
            calculate_route_metrics(route).Demanda = ClaimedDemand(route)
  /\ \A i \in DOMAIN performance_data :
       performance_data[i].Demanda = ClaimedDemand(performance_data[i].Ruta)

\* R4 is active and the metrics of R1 and R4 have been computed.
C8_ComputedForR1AndR4 ==
  /\ pc = "running"
  /\ current_route = "R4"
  /\ Len(performance_data) = 4
  /\ performance_data[1].Demanda = 1584
  /\ performance_data[4].Demanda = 1000

\* The four bands of the claim, as sets of Atan2Deg values.
RightBand == (-Deg45)..Deg45
UpBand == (Deg45 + 1)..Deg135
LeftBand == {a \in (-8)..8 : a > Deg135 \/ a < -Deg135}
DownBand == (-Deg135)..(-Deg45 - 1)

BandOf(angle) ==
  CASE angle \in RightBand -> "right"
    [] angle \in UpBand -> "up"
    [] angle \in LeftBand -> "left"
    [] angle \in DownBand -> "down"

ClaimedOrientation(route) ==
  CASE route \in {"R1", "R4"} -> "right"
    [] route \in {"R2", "R3"} -> "up"

Deltas ==
  {d \in ((-MaxDelta)..MaxDelta) \X ((-MaxDelta)..MaxDelta) : d # <<0, 0>>}

\* C9: the orientation is chosen by the band of the travel angle (right
\* -45..45, up above 45 to 135, left beyond +/-135, down otherwise); the
\* bands are disjoint and cover every direction, so every segment with
\* distinct endpoints selects exactly the orientation of its one band; and on
\* every tick R1 and R4 are drawn moving right, R2 (at exactly 135) and R3
\* moving up, with the extent of that orientation.
C9_OrientationByBand ==
  /\ \A d \in Deltas :
       LET angle == Atan2Deg(d[2], d[1])
       IN  /\ Cardinality({b \in {RightBand, UpBand, LeftBand, DownBand} :
                             angle \in b}) = 1
           /\ Orientation(angle) = BandOf(angle)
  /\ (event = Timer /\ pc = "running")
       => /\ frame.orientation = ClaimedOrientation(current_route)
          /\ frame.orientation = BandOf(frame.angle)
          /\ extent = OrientedExtent(ClaimedOrientation(current_route),
                                     frame.x, frame.y, bus_width, bus_height)

\* A tick on R2, whose angle is exactly 135 degrees, drew the bus moving up.
C9_R2AtBoundaryDrawnUp ==
  /\ current_route = "R2"
  /\ event = Timer
  /\ frame.angle = Deg135
  /\ frame.orientation = "up"
  /\ bus_pos.progress > 0

\* C10: every step is positive; each tick places the bus on the way from the
\* route's first stop to its second, further along than before or back at
\* the first stop, never using the points[0] fallback; and with ticks going
\* on, once the route is no longer switched the progress wraps to 0 again
\* and again.
C10_BusKeepsCycling ==
  /\ [](\A route \in DOMAIN routes : Speed(route) > 0)
  /\ []((event = Timer /\ pc = "running")
          => LET first == points[routes[current_route][1]]
                 second == points[routes[current_route][2]]
             IN  /\ frame.start = first
                 /\ frame.end = second
                 /\ ~frame.wrapped_end
                 /\ frame.x = first[1] * ProgressUnit
                                + (second[1] - first[1]) * bus_pos.progress
                 /\ frame.y = first[2] * ProgressUnit
                                + (second[2] - first[2]) * bus_pos.progress)
  /\ [][update => (bus_pos'.progress > bus_pos.progress \/ bus_pos'.progress = 0)]_vars
  /\ (<>[](event # SpaceKey)
        => []<>(event = Timer /\ bus_pos.progress = 0 /\ before.progress > 0))

\* The bus has completed the segment of R3 and is back at its first stop.
C10_BackAtFirstStop ==
  /\ current_route = "R3"
  /\ event = Timer
  /\ before.progress > 0
  /\ bus_pos.progress = 0
  /\ frame.x = points["Terminal"][1] * ProgressUnit
  /\ frame.y = points["Terminal"][2] * ProgressUnit
====
